---- MODULE Spec2Model ----
(***************************************************************************)
(* Model of adrd/nn/resnet3d.py: assembly of the 3D residual network       *)
(* (VideoResNet.__init__, _make_layer, _initialize_weights), its forward   *)
(* pass over tensor shapes, and the mid-plane computation of the blocks.   *)
(* Tensors are modelled by their shapes; layers by their hyper-parameters  *)
(* and, for the normalize layers, their scale (weight) and shift (bias).   *)
(***************************************************************************)
EXTENDS Integers, Sequences, FiniteSets, TLC

VARIABLES pc, block, layers, zero_init_residual, training, inplanes, stem,
          stages, avgpool, inplanesAt, planesAt, x, input, fk, trace,
          m_pc, m_inplanes, m_planes, m_stride, m_divisor, m_mid, m_conv

netVars == <<block, layers, zero_init_residual, training, inplanes, stem,
             stages, avgpool, inplanesAt, planesAt>>
fwdVars == <<x, input, fk, trace>>
midVars == <<m_pc, m_inplanes, m_planes, m_stride, m_divisor, m_mid, m_conv>>
vars == <<pc, netVars, fwdVars, midVars>>

(* ------------------------------ bounds --------------------------------- *)
MaxBlocks == 2
MaxBatch == 2
MaxDim == 1
MaxPlanes == 6
MaxStride == 2

(* --------------------------- small helpers ----------------------------- *)
None == <<>>

Triple(v) == <<v, v, v>>

BlockKinds == {"BasicBlock", "Bottleneck"}

(* -------------------------- layer primitives --------------------------- *)
Conv3d(in_channels, out_channels, kernel_size, stride, padding) ==
    [type |-> "Conv3d", cin |-> in_channels, cout |-> out_channels,
     kernel |-> kernel_size, stride |-> stride, padding |-> padding,
     winit |-> "default", weight |-> 0, bias |-> 0, visits |-> 0]

BatchNorm3d(num_features) ==
    [type |-> "BatchNorm3d", cin |-> num_features, cout |-> num_features,
     kernel |-> Triple(0), stride |-> Triple(0), padding |-> Triple(0),
     winit |-> "none", weight |-> 1, bias |-> 0, visits |-> 0]

ReLU ==
    [type |-> "ReLU", cin |-> 0, cout |-> 0,
     kernel |-> Triple(0), stride |-> Triple(0), padding |-> Triple(0),
     winit |-> "none", weight |-> 0, bias |-> 0, visits |-> 0]

AdaptiveAvgPool3d(output_size) ==
    [type |-> "AdaptiveAvgPool3d", cin |-> 0, cout |-> 0,
     kernel |-> output_size, stride |-> Triple(0), padding |-> Triple(0),
     winit |-> "none", weight |-> 0, bias |-> 0, visits |-> 0]

(* Variant: the builder sizes its output by midplanes. *)
Conv3DSimpleUsesMid(in_planes, out_planes, midplanes, stride, padding) ==
    Conv3d(in_planes, midplanes, Triple(3), Triple(stride), Triple(padding))

(* Conv3DSimple.__init__: midplanes is accepted and not used. *)
Conv3DSimple(in_planes, out_planes, midplanes, stride, padding) ==
    Conv3d(in_planes, out_planes, Triple(3), Triple(stride), Triple(padding))

(* Variant: the downsample path ignores the requested stride. *)
GetDownsampleStrideOne(stride) == <<1, 1, 1>>

GetDownsampleStride(stride) == <<stride, stride, stride>>

(* ------------------------------ blocks --------------------------------- *)
(* Variant: Bottleneck without its expansion. *)
ExpansionOne(kind) == 1

Expansion(kind) == IF kind = "BasicBlock" THEN 1 ELSE 4

MidDivisor(inpl, planes) == inpl * 3 * 3 + 3 * planes

Midplanes(inpl, planes) == (inpl * planes * 3 * 3 * 3) \div MidDivisor(inpl, planes)

BasicBlock(inpl, planes, stride, downsample) ==
    LET midplanes == Midplanes(inpl, planes) IN
    [kind |-> "BasicBlock",
     conv1 |-> <<Conv3DSimple(inpl, planes, midplanes, stride, 1),
                 BatchNorm3d(planes), ReLU>>,
     conv2 |-> <<Conv3DSimple(planes, planes, midplanes, 1, 1),
                 BatchNorm3d(planes)>>,
     conv3 |-> None,
     downsample |-> downsample,
     stride |-> stride]

Bottleneck(inpl, planes, stride, downsample) ==
    LET midplanes == Midplanes(inpl, planes) IN
    [kind |-> "Bottleneck",
     conv1 |-> <<Conv3d(inpl, planes, Triple(1), Triple(1), Triple(0)),
                 BatchNorm3d(planes), ReLU>>,
     conv2 |-> <<Conv3DSimple(planes, planes, midplanes, stride, 1),
                 BatchNorm3d(planes), ReLU>>,
     conv3 |-> <<Conv3d(planes, planes * Expansion("Bottleneck"),
                        Triple(1), Triple(1), Triple(0)),
                 BatchNorm3d(planes * Expansion("Bottleneck"))>>,
     downsample |-> downsample,
     stride |-> stride]

Block(kind, inpl, planes, stride, downsample) ==
    IF kind = "BasicBlock" THEN BasicBlock(inpl, planes, stride, downsample)
    ELSE Bottleneck(inpl, planes, stride, downsample)

(* Names bound on a block instance by its constructor. *)
Attrs(kind) ==
    IF kind = "BasicBlock"
    THEN {"conv1", "conv2", "relu", "downsample", "stride"}
    ELSE {"conv1", "conv2", "conv3", "relu", "downsample", "stride"}

BasicStem ==
    <<Conv3d(1, 64, Triple(7), Triple(2), Triple(3)), BatchNorm3d(64), ReLU>>

(* --------------------------- stage assembly ---------------------------- *)
StagePlanes == <<64, 128, 192, 256>>
StageStride == <<1, 2, 2, 2>>

(* Variant: downsample only when both the stride and the width change. *)
NeedsDownsampleBoth(stride, inpl, planes, kind) ==
    stride # 1 /\ inpl # planes * Expansion(kind)

NeedsDownsample(stride, inpl, planes, kind) ==
    stride # 1 \/ inpl # planes * Expansion(kind)

(* Variant: range(1, blocks + 1). *)
RECURSIVE RestBlocksInclusive(_, _, _, _, _)
RestBlocksInclusive(kind, inpl, planes, i, blocks) ==
    IF i > blocks THEN <<>>
    ELSE <<Block(kind, inpl, planes, 1, None)>>
         \o RestBlocksInclusive(kind, inpl, planes, i + 1, blocks)

RECURSIVE RestBlocks(_, _, _, _, _)
(* for i in range(1, blocks): layers.append(block(self.inplanes, planes, conv_builder)) *)
RestBlocks(kind, inpl, planes, i, blocks) ==
    IF i >= blocks THEN <<>>
    ELSE <<Block(kind, inpl, planes, 1, None)>>
         \o RestBlocks(kind, inpl, planes, i + 1, blocks)

(* Variant: self.inplanes is not updated after the first block. *)
MakeLayerStaleInplanes(kind, inpl, planes, blocks, stride) ==
    LET downsample ==
            IF NeedsDownsample(stride, inpl, planes, kind)
            THEN <<Conv3d(inpl, planes * Expansion(kind), Triple(1),
                          GetDownsampleStride(stride), Triple(0)),
                   BatchNorm3d(planes * Expansion(kind))>>
            ELSE None
        first == Block(kind, inpl, planes, stride, downsample)
    IN [layers |-> <<first>> \o RestBlocks(kind, inpl, planes, 1, blocks),
        inplanes |-> inpl]

MakeLayer(kind, inpl, planes, blocks, stride) ==
    LET downsample ==
            IF NeedsDownsample(stride, inpl, planes, kind)
            THEN <<Conv3d(inpl, planes * Expansion(kind), Triple(1),
                          GetDownsampleStride(stride), Triple(0)),
                   BatchNorm3d(planes * Expansion(kind))>>
            ELSE None
        first == Block(kind, inpl, planes, stride, downsample)
        newInplanes == planes * Expansion(kind)
    IN [layers |-> <<first>> \o RestBlocks(kind, newInplanes, planes, 1, blocks),
        inplanes |-> newInplanes]

(* ------------------------ weight initialisation ------------------------ *)
(* Variant: the pass handles convolutions only. *)
InitLayerConvOnly(l) ==
    IF l.type = "Conv3d"
    THEN [l EXCEPT !.winit = "kaiming_normal_fan_out_relu",
                   !.visits = l.visits + 1]
    ELSE l

InitLayer(l) ==
    IF l.type = "Conv3d"
    THEN [l EXCEPT !.winit = "kaiming_normal_fan_out_relu",
                   !.visits = l.visits + 1]
    ELSE IF l.type = "BatchNorm3d"
    THEN [l EXCEPT !.weight = 1, !.bias = 0, !.visits = l.visits + 1]
    ELSE l

RECURSIVE InitSeq(_)
InitSeq(s) == IF s = <<>> THEN <<>> ELSE <<InitLayer(Head(s))>> \o InitSeq(Tail(s))

InitBlock(b) ==
    [b EXCEPT !.conv1 = InitSeq(b.conv1), !.conv2 = InitSeq(b.conv2),
              !.conv3 = InitSeq(b.conv3),
              !.downsample = InitSeq(b.downsample)]

RECURSIVE InitStage(_)
InitStage(s) == IF s = <<>> THEN <<>> ELSE <<InitBlock(Head(s))>> \o InitStage(Tail(s))

RECURSIVE InitializeWeights(_)
InitializeWeights(sts) ==
    IF sts = <<>> THEN <<>>
    ELSE <<InitStage(Head(sts))>> \o InitializeWeights(Tail(sts))

HasBottleneck(sts) ==
    \E i \in 1..Len(sts) : \E j \in 1..Len(sts[i]) : sts[i][j].kind = "Bottleneck"

(* --------------------------- tensors (shapes) -------------------------- *)
T(shape) == [ok |-> TRUE, shape |-> shape, err |-> "none"]

Fail(e) == [ok |-> FALSE, shape |-> <<>>, err |-> e]

NoTensor == [ok |-> TRUE, shape |-> <<>>, err |-> "none"]

(* Output extent of a convolution along one axis. *)
ConvOutDim(d, k, s, p) == ((d + 2 * p - k) \div s) + 1

ApplyConv3d(l, t) ==
    IF t.shape[2] # l.cin THEN Fail("ChannelMismatch")
    ELSE IF \E i \in 1..3 : t.shape[2 + i] + 2 * l.padding[i] < l.kernel[i]
    THEN Fail("KernelTooLarge")
    ELSE T(<<t.shape[1], l.cout,
             ConvOutDim(t.shape[3], l.kernel[1], l.stride[1], l.padding[1]),
             ConvOutDim(t.shape[4], l.kernel[2], l.stride[2], l.padding[2]),
             ConvOutDim(t.shape[5], l.kernel[3], l.stride[3], l.padding[3])>>)

(* Batch normalisation keeps the shape; in training mode it needs more     *)
(* than one value per channel.                                             *)
ApplyBatchNorm3d(l, t, train) ==
    IF t.shape[2] # l.cin THEN Fail("ChannelMismatch")
    ELSE IF train /\ t.shape[1] * t.shape[3] * t.shape[4] * t.shape[5] = 1
    THEN Fail("BatchNormSingleValue")
    ELSE t

ApplyLayer(l, t, train) ==
    IF ~t.ok THEN t
    ELSE IF l.type = "Conv3d" THEN ApplyConv3d(l, t)
    ELSE IF l.type = "BatchNorm3d" THEN ApplyBatchNorm3d(l, t, train)
    ELSE t

RECURSIVE ApplySeq(_, _, _)
ApplySeq(s, t, train) ==
    IF s = <<>> THEN t
    ELSE ApplySeq(Tail(s), ApplyLayer(Head(s), t, train), train)

(* out = conv1(x); out = conv2(out); [out = conv3(out)] *)
ConvPath(b, t, train) ==
    ApplySeq(b.conv3, ApplySeq(b.conv2, ApplySeq(b.conv1, t, train), train), train)

(* residual = x, or downsample(x) when a downsample path is present *)
Residual(b, t, train) ==
    IF b.downsample = None THEN t ELSE ApplySeq(b.downsample, t, train)

(* out += residual : residual must broadcast to the shape of out *)
AddInPlace(out, residual) ==
    IF \A i \in 1..5 : residual.shape[i] = out.shape[i] \/ residual.shape[i] = 1
    THEN out
    ELSE Fail("ShapeMismatch")

BlockForward(b, t, train) ==
    IF ~t.ok THEN t
    ELSE LET out == ConvPath(b, t, train)
             residual == Residual(b, t, train)
         IN IF ~out.ok THEN out
            ELSE IF ~residual.ok THEN residual
            ELSE AddInPlace(out, residual)

RECURSIVE StageForward(_, _, _)
StageForward(s, t, train) ==
    IF s = <<>> THEN t
    ELSE StageForward(Tail(s), BlockForward(Head(s), t, train), train)

(* Variant: the pooling is left out. *)
AvgPoolSkipped(pool, t) == t

AvgPoolForward(pool, t) ==
    T(<<t.shape[1], t.shape[2], pool.kernel[1], pool.kernel[2], pool.kernel[3]>>)

(* x.flatten(1) *)
Flatten(t) ==
    T(<<t.shape[1], t.shape[2] * t.shape[3] * t.shape[4] * t.shape[5]>>)

(* Variant: forward leaves the stages one stage early. *)
AfterLayerEarly(k) == IF k < 3 THEN "f_layer" ELSE "f_avgpool"

(* Position after self.layer<k> in forward. *)
AfterLayer(k) == IF k < 4 THEN "f_layer" ELSE "f_avgpool"

LayerName(k) == <<"layer1", "layer2", "layer3", "layer4">>[k]

(* ------------------------------- inputs -------------------------------- *)
SpecialShapes ==
    {<<2, 3, 4>>, <<5, 7, 9>>, <<16, 16, 16>>, <<16, 16, 17>>, <<32, 32, 32>>,
     <<182, 218, 182>>}

DimTriples == ((1..MaxDim) \X (1..MaxDim) \X (1..MaxDim)) \cup SpecialShapes

Inputs == {<<n, s[1], s[2], s[3]>> : n \in 1..MaxBatch, s \in DimTriples}

NumClasses == {2, 400}

(* ============================ construction ============================= *)
MidIdle ==
    /\ m_pc = "idle" /\ m_inplanes = 0 /\ m_planes = 0 /\ m_stride = 0
    /\ m_divisor = 0 /\ m_mid = 0 /\ m_conv = ReLU

NetEmpty ==
    /\ block = "none" /\ layers = <<>> /\ zero_init_residual = FALSE
    /\ training = FALSE /\ inplanes = 0 /\ stem = <<>> /\ stages = <<>>
    /\ avgpool = ReLU /\ inplanesAt = <<>> /\ planesAt = <<>>
    /\ x = NoTensor /\ input = <<>> /\ fk = 0 /\ trace = <<>>

Init == pc = "new" /\ NetEmpty /\ MidIdle

(* VideoResNet.__init__ up to self.stem = stem() *)
Construct ==
    /\ pc = "new"
    /\ \E b \in BlockKinds, ls \in [1..4 -> 0..MaxBlocks], z \in BOOLEAN,
          num_classes \in NumClasses :
          /\ block' = b
          /\ layers' = ls
          /\ zero_init_residual' = z
    /\ training' = TRUE
    /\ inplanes' = 64
    /\ stem' = BasicStem
    /\ pc' = "make_layer"
    /\ UNCHANGED <<stages, avgpool, inplanesAt, planesAt, fwdVars, midVars>>

(* self.layer<k> = self._make_layer(block, conv_makers[k-1], planes, layers[k-1], stride) *)
MakeLayerStep ==
    /\ pc = "make_layer"
    /\ LET k == Len(stages) + 1
           r == MakeLayer(block, inplanes, StagePlanes[k], layers[k], StageStride[k])
       IN /\ stages' = Append(stages, r.layers)
          /\ inplanes' = r.inplanes
          /\ inplanesAt' = Append(inplanesAt, inplanes)
          /\ planesAt' = Append(planesAt, StagePlanes[k])
          /\ pc' = IF k = 4 THEN "avgpool" ELSE "make_layer"
    /\ UNCHANGED <<block, layers, zero_init_residual, training, stem, avgpool,
                   fwdVars, midVars>>

(* self.avgpool = nn.AdaptiveAvgPool3d((1, 1, 1)) *)
SetAvgPool ==
    /\ pc = "avgpool"
    /\ avgpool' = AdaptiveAvgPool3d(<<1, 1, 1>>)
    /\ pc' = "init_weights"
    /\ UNCHANGED <<block, layers, zero_init_residual, training, inplanes, stem,
                   stages, inplanesAt, planesAt, fwdVars, midVars>>

(* self._initialize_weights() *)
InitializeWeightsStep ==
    /\ pc = "init_weights"
    /\ stem' = InitSeq(stem)
    /\ stages' = InitializeWeights(stages)
    /\ pc' = "zero_init"
    /\ UNCHANGED <<block, layers, zero_init_residual, training, inplanes,
                   avgpool, inplanesAt, planesAt, fwdVars, midVars>>

(* if zero_init_residual: for every Bottleneck m: constant_(m.bn3.weight, 0). *)
(* The lookup of an attribute the block does not bind raises.              *)
ZeroInitResidual ==
    /\ pc = "zero_init"
    /\ pc' = IF zero_init_residual /\ HasBottleneck(stages)
                /\ "bn3" \notin Attrs("Bottleneck")
             THEN "ctor_raised"
             ELSE "ready"
    /\ UNCHANGED <<netVars, fwdVars, midVars>>

(* ============================== forward ================================ *)
ForwardCall ==
    /\ pc = "ready"
    /\ \E inp \in Inputs :
          /\ input' = inp
          /\ x' = T(<<inp[1], 1, inp[2], inp[3], inp[4]>>)
    /\ trace' = <<>>
    /\ fk' = 0
    /\ pc' = "f_stem"
    /\ UNCHANGED <<netVars, midVars>>

(* x = self.stem(x) *)
ForwardStem ==
    /\ pc = "f_stem"
    /\ LET y == ApplySeq(stem, x, training)
       IN /\ x' = y
          /\ IF y.ok
             THEN /\ trace' = Append(trace, "stem")
                  /\ fk' = 1
                  /\ pc' = "f_layer"
             ELSE /\ pc' = "raised"
                  /\ UNCHANGED <<trace, fk>>
    /\ UNCHANGED <<input, netVars, midVars>>

(* x = self.layer<fk>(x) *)
ForwardLayer ==
    /\ pc = "f_layer"
    /\ LET y == StageForward(stages[fk], x, training)
       IN /\ x' = y
          /\ IF y.ok
             THEN /\ trace' = Append(trace, LayerName(fk))
                  /\ fk' = fk + 1
                  /\ pc' = AfterLayer(fk)
             ELSE /\ pc' = "raised"
                  /\ UNCHANGED <<trace, fk>>
    /\ UNCHANGED <<input, netVars, midVars>>

(* x = self.avgpool(x) *)
ForwardAvgPool ==
    /\ pc = "f_avgpool"
    /\ x' = AvgPoolForward(avgpool, x)
    /\ trace' = Append(trace, "avgpool")
    /\ pc' = "f_flatten"
    /\ UNCHANGED <<input, fk, netVars, midVars>>

(* x = x.flatten(1); return x *)
ForwardFlatten ==
    /\ pc = "f_flatten"
    /\ x' = Flatten(x)
    /\ trace' = Append(trace, "flatten")
    /\ pc' = "returned"
    /\ UNCHANGED <<input, fk, netVars, midVars>>

(* The call is over (returned or raised); the network can be called again. *)
ForwardExit ==
    /\ pc \in {"returned", "raised"}
    /\ pc' = "ready"
    /\ x' = NoTensor /\ input' = <<>> /\ fk' = 0 /\ trace' = <<>>
    /\ UNCHANGED <<netVars, midVars>>

Next ==
    \/ Construct
    \/ MakeLayerStep
    \/ SetAvgPool
    \/ InitializeWeightsStep
    \/ ZeroInitResidual
    \/ ForwardCall
    \/ ForwardStem
    \/ ForwardLayer
    \/ ForwardAvgPool
    \/ ForwardFlatten
    \/ ForwardExit

Spec == Init /\ [][Next]_vars

(* ====================== mid-plane computation ========================== *)
(* midplanes = (inplanes * planes * 3 * 3 * 3) // (inplanes * 3 * 3 + 3 * planes), *)
(* then conv_builder(inplanes, planes, midplanes, stride), for any positive *)
(* (inplanes, planes).                                                      *)
(* Channel counts tried: the small ones and those the network uses. *)
PlaneCounts == (1..MaxPlanes) \cup {64, 128, 192, 256, 512, 768, 1024}

InitMid ==
    /\ pc = "mid" /\ NetEmpty
    /\ m_pc = "divisor"
    /\ m_inplanes \in PlaneCounts
    /\ m_planes \in PlaneCounts
    /\ m_stride \in 1..MaxStride
    /\ m_divisor = 0 /\ m_mid = 0 /\ m_conv = ReLU

MidDivisorStep ==
    /\ m_pc = "divisor"
    /\ m_divisor' = MidDivisor(m_inplanes, m_planes)
    /\ m_pc' = IF m_divisor' = 0 THEN "ZeroDivisionError" ELSE "divide"
    /\ UNCHANGED <<pc, netVars, fwdVars, m_inplanes, m_planes, m_stride, m_mid, m_conv>>

MidDivideStep ==
    /\ m_pc = "divide"
    /\ m_mid' = Midplanes(m_inplanes, m_planes)
    /\ m_pc' = "build"
    /\ UNCHANGED <<pc, netVars, fwdVars, m_inplanes, m_planes, m_stride, m_divisor, m_conv>>

MidBuildStep ==
    /\ m_pc = "build"
    /\ m_conv' = Conv3DSimple(m_inplanes, m_planes, m_mid, m_stride, 1)
    /\ m_pc' = "done"
    /\ UNCHANGED <<pc, netVars, fwdVars, m_inplanes, m_planes, m_stride, m_divisor, m_mid>>

NextMid == MidDivisorStep \/ MidDivideStep \/ MidBuildStep

SpecMid == InitMid /\ [][NextMid]_vars

(* ============================ properties =============================== *)
InForward == pc \in {"f_stem", "f_layer", "f_avgpool", "f_flatten", "returned", "raised"}

Built == pc = "ready" \/ InForward

IsR3D18 ==
    /\ block = "BasicBlock"
    /\ layers = <<2, 2, 2, 2>>
    /\ ~zero_init_residual

SeqLayers(s) == {s[i] : i \in 1..Len(s)}

BlockLayers(b) ==
    SeqLayers(b.conv1) \cup SeqLayers(b.conv2) \cup SeqLayers(b.conv3)
    \cup SeqLayers(b.downsample)

StageBlocks(k) == {stages[k][j] : j \in 1..Len(stages[k])}

NetBlocks == UNION {StageBlocks(k) : k \in 1..Len(stages)}

NetLayers == SeqLayers(stem) \cup UNION {BlockLayers(b) : b \in NetBlocks}

NormLayers == {l \in NetLayers : l.type = "BatchNorm3d"}

LastPath(b) == IF b.kind = "BasicBlock" THEN b.conv2 ELSE b.conv3

(* The convolution of the block that carries the requested stride. *)
StridedConv(b) == IF b.kind = "BasicBlock" THEN b.conv1[1] ELSE b.conv2[1]

MaxOf(a, b) == IF a >= b THEN a ELSE b

(* C1 (as stated): the r3d_18() network maps every input (N,1,D,H,W) with  *)
(* N,D,H,W >= 1 to an output of shape (N,256): the call never raises and   *)
(* what it returns has shape (N,256).                                      *)
C1_EveryInputGives256 ==
    (IsR3D18 /\ InForward) =>
        /\ pc # "raised"
        /\ pc = "returned" => x.shape = <<input[1], 256>>

(* C1 (amended): the r3d_18() network maps every input (N,1,D,H,W) with    *)
(* N >= 2 or one of D,H,W above 16 to an output of shape (N,256),          *)
(* whatever num_classes is; (2,1,32,32,32) gives (2,256) and               *)
(* (1,1,182,218,182) gives (1,256).                                        *)
C1_LargeEnoughInputGives256 ==
    (IsR3D18 /\ InForward
      /\ (input[1] >= 2 \/ input[2] > 16 \/ input[3] > 16 \/ input[4] > 16)) =>
        /\ pc # "raised"
        /\ pc = "returned" => x.shape = <<input[1], 256>>

C1_Witness ==
    /\ IsR3D18 /\ pc = "returned"
    /\ input = <<1, 182, 218, 182>> /\ x.shape = <<1, 256>>

(* C2: the first block of every stage has a downsample path exactly when   *)
(* the requested stride is not 1 or the running input-channel count at the *)
(* call differs from planes * expansion; with BasicBlock that is stage 1   *)
(* without and stages 2, 3, 4 with a downsample path.                      *)
C2_DownsampleIff ==
    \A k \in 1..Len(stages) :
        /\ (stages[k][1].downsample # None) <=>
              (StageStride[k] # 1 \/ inplanesAt[k] # planesAt[k] * Expansion(block))
        /\ block = "BasicBlock" => ((stages[k][1].downsample = None) <=> (k = 1))

C2_Witness ==
    /\ pc = "ready" /\ block = "BasicBlock"
    /\ stages[1][1].downsample = None
    /\ stages[2][1].downsample # None
    /\ stages[3][1].downsample # None
    /\ stages[4][1].downsample # None

(* C3: construction with Bottleneck blocks and zero_init_residual=True     *)
(* completes, and then the last normalize layer of every Bottleneck has    *)
(* scale 0, every other normalize layer scale 1, and every one shift 0.    *)
C3_ZeroInitCompletes ==
    (block = "Bottleneck" /\ zero_init_residual
      /\ pc \notin {"new", "make_layer", "avgpool", "init_weights", "zero_init"}) =>
        /\ pc # "ctor_raised"
        /\ \A b \in NetBlocks :
              /\ b.conv3[2].weight = 0
              /\ \A l \in SeqLayers(b.conv1) \cup SeqLayers(b.conv2)
                          \cup SeqLayers(b.downsample) :
                    l.type = "BatchNorm3d" => l.weight = 1
        /\ \A l \in NormLayers : l.bias = 0

(* C4: without zero_init_residual, after construction every normalize      *)
(* layer (stem, conv1/conv2/conv3 of every block, every downsample path)   *)
(* has scale 1 and shift 0; the initialisation pass runs once, after the   *)
(* stem and the four stages are built, and visits every such layer.        *)
C4_NormInit ==
    /\ (~zero_init_residual /\ (pc = "zero_init" \/ Built)) =>
          /\ Len(stages) = 4
          /\ \A l \in NormLayers : l.weight = 1 /\ l.bias = 0 /\ l.visits = 1
    /\ pc \in {"make_layer", "avgpool", "init_weights"} =>
          \A l \in NormLayers : l.visits = 0
    /\ pc = "init_weights" => (Len(stages) = 4 /\ stem # <<>>)

C4_Witness ==
    /\ pc = "ready" /\ ~zero_init_residual /\ block = "Bottleneck"
    /\ stages[1][1].downsample # None
    /\ stages[1][1].downsample[2].visits = 1
    /\ stages[4][1].conv3[2].weight = 1 /\ stem[2].visits = 1

(* C5: the channel width at the residual addition of every block of stage  *)
(* i is 4*planes_i = 256, 512, 768, 1024 with Bottleneck and planes_i =    *)
(* 64, 128, 192, 256 with BasicBlock, while the planes passed to           *)
(* _make_layer are 64, 128, 192, 256 for both.                             *)
C5_Widths ==
    /\ \A k \in 1..Len(stages) :
          /\ planesAt[k] = <<64, 128, 192, 256>>[k]
          /\ \A b \in StageBlocks(k) :
                LET w == LastPath(b)[1].cout IN
                /\ LastPath(b)[2].cin = w
                /\ block = "BasicBlock" => w = <<64, 128, 192, 256>>[k]
                /\ block = "Bottleneck" => w = <<256, 512, 768, 1024>>[k]
    /\ (pc \in {"f_layer", "f_avgpool"} /\ fk >= 2) =>
          x.shape[2] = (IF block = "BasicBlock" THEN 1 ELSE 4) * planesAt[fk - 1]

C5_Witness ==
    /\ block = "Bottleneck" /\ pc = "f_avgpool" /\ x.shape[2] = 1024
    /\ planesAt = <<64, 128, 192, 256>>

(* C6: for positive (inplanes, planes) the divisor of the mid-plane        *)
(* formula is not zero, mid = (inplanes*planes*27) // (inplanes*9 +        *)
(* 3*planes) is a non-negative integer, and the convolution Conv3DSimple   *)
(* builds (input and output channels, kernel, stride) is the same for      *)
(* every value of midplanes.                                               *)
C6_Midplanes ==
    /\ m_pc # "ZeroDivisionError"
    /\ m_pc \in {"divide", "build", "done"} => m_divisor > 0
    /\ m_pc \in {"build", "done"} =>
          /\ m_mid \in Nat
          /\ m_mid * m_divisor <= 27 * m_inplanes * m_planes
          /\ 27 * m_inplanes * m_planes < (m_mid + 1) * m_divisor
    /\ m_pc = "done" =>
          /\ m_conv.cin = m_inplanes /\ m_conv.cout = m_planes
          /\ m_conv.kernel = <<3, 3, 3>>
          /\ m_conv.stride = <<m_stride, m_stride, m_stride>>
          /\ \A m \in (0..(3 * MaxPlanes)) \cup {m_mid} :
                Conv3DSimple(m_inplanes, m_planes, m, m_stride, 1) = m_conv

C6_Witness ==
    /\ m_pc = "done" /\ m_inplanes = 1 /\ m_planes = 3 /\ m_mid = 4
    /\ m_conv.cout = 3

(* C7: for every input and every block of every stage, the residual        *)
(* operand (the block input, or the downsample output) has the same        *)
(* channel count and the same depth, height and width as the output of    *)
(* the block's convolution path, so the addition never fails on shapes.    *)
C7_ResidualShapes ==
    /\ x.err \notin {"ShapeMismatch", "ChannelMismatch", "KernelTooLarge"}
    /\ pc = "f_layer" =>
          \A j \in 1..Len(stages[fk]) :
              LET b == stages[fk][j]
                  xin == StageForward(SubSeq(stages[fk], 1, j - 1), x, FALSE)
                  out == ConvPath(b, xin, FALSE)
                  res == Residual(b, xin, FALSE)
              IN /\ xin.ok /\ out.ok /\ res.ok
                 /\ out.shape = res.shape

C7_Witness ==
    /\ pc = "f_layer" /\ fk = 3 /\ block = "Bottleneck"
    /\ Len(stages[3]) = 2
    /\ x.shape = <<1, 512, 46, 55, 46>>

(* C8: self.inplanes starts at 64, the stem's output channel count, and    *)
(* after each _make_layer call equals planes * expansion of that stage;    *)
(* only the first block of a stage gets the requested stride, the          *)
(* downsample path and the pre-update inplanes, the others get stride 1,   *)
(* no downsample and planes * expansion; so the first block of a stage     *)
(* takes as many channels as the preceding stage (or the stem) produces.   *)
C8_Inplanes ==
    /\ (pc = "make_layer" /\ stages = <<>>) =>
          (inplanes = 64 /\ stem[1].cout = 64)
    /\ stages # <<>> => inplanes = planesAt[Len(stages)] * Expansion(block)
    /\ \A k \in 1..Len(stages) :
          LET first == stages[k][1]
              width == planesAt[k] * Expansion(block)
          IN /\ inplanesAt[k] = (IF k = 1 THEN stem[1].cout
                                 ELSE LastPath(stages[k - 1][Len(stages[k - 1])])[1].cout)
             /\ first.conv1[1].cin = inplanesAt[k]
             /\ first.stride = StageStride[k]
             /\ StridedConv(first).stride = Triple(StageStride[k])
             /\ first.downsample # None => first.downsample[1].cin = inplanesAt[k]
             /\ \A j \in 2..Len(stages[k]) :
                   /\ stages[k][j].stride = 1
                   /\ StridedConv(stages[k][j]).stride = Triple(1)
                   /\ stages[k][j].downsample = None
                   /\ stages[k][j].conv1[1].cin = width

C8_Witness ==
    /\ pc = "ready" /\ block = "Bottleneck" /\ inplanes = 1024
    /\ Len(stages[2]) = 2 /\ inplanesAt = <<64, 256, 512, 768>>

(* C9: a forward call applies stem, layer1, layer2, layer3, layer4, the    *)
(* average pool and the flatten in this order, each once, none skipped,    *)
(* repeated or reordered, and no classification projection follows the     *)
(* flatten: what is returned is the flattened feature vector.              *)
ForwardOrder ==
    <<"stem", "layer1", "layer2", "layer3", "layer4", "avgpool", "flatten">>

====
